---- MODULE Spec2Model ----
(***************************************************************************)
(* Credit-gated asynchronous report jobs of cwxai-server.                  *)
(*                                                                         *)
(* One user, whose credit document lives in the users collection, sends    *)
(* submit requests (free, paid, upgrade) to the Flask routes of            *)
(* routes/summarized_workflow_route.py.  A request that passes the credit  *)
(* check debits one credit and dispatches a Celery task of tasks.py.  The  *)
(* task publishes PROGRESS states, runs the shared-context step and the    *)
(* section fan-out of services/free_report_generation.py or                *)
(* services/generate_final_report.py, and ends in SUCCESS or, through its  *)
(* except handlers, in FAILURE with a refund.                              *)
(*                                                                         *)
(* The document store and the broker are taken to be reliable: a MongoDB   *)
(* operation on the existing user document and a .delay() call succeed     *)
(* (SpecDispatch drops the second assumption).  Request handlers           *)
(* interleave at their database operations.                                *)
(*                                                                         *)
(* The specifications share the state:                                     *)
(*   Spec       the ledger level: concurrent requests of the user, each    *)
(*              task body run as a whole to its return or to its except    *)
(*              handler;                                                   *)
(*   SpecJob    the job level: one request and its task, step by step      *)
(*              (progress states, retries, shared context, section         *)
(*              fan-out, time limit);                                      *)
(*   SpecIndex  the retrieval index cache of utils/document_processing.py: *)
(*              artifact blob, hash marker, index blob and the process's   *)
(*              FAISS_INDEX_CACHE, for one (user, artifact) key;           *)
(*   SpecGen    the retry loop of one section's content-generation call    *)
(*              (_generate_content and generate_with_openai);              *)
(*   SpecCurrency  one call of get_currency_via_llm of either module, over *)
(*              the model outputs up to MaxOutput characters;              *)
(*   SpecRace   two threads rebuilding the index of one key at once;       *)
(*   SpecDispatch  the ledger level with a dispatch that can fail;         *)
(*   SpecJobFair  the job level with a worker that keeps taking steps and  *)
(*              an external call that may never return;                    *)
(*   SpecPayment  the payment routes of routes/payments: orders, coupons,  *)
(*              verification, webhook, mark-failed and mark-cancelled;     *)
(*   SpecKeys   the blob names and cache keys initialize_retriever         *)
(*              computes, over several users and file paths.               *)
(***************************************************************************)
EXTENDS Integers, FiniteSets, Sequences, TLC

\* ---------------------------------------------------------------- bounds
MaxReq == 2          \* submit requests (and hence task ids) per behaviour
MaxRunning == 1      \* tasks the worker pool executes at the same time
NumSections == 2     \* section tasks of one fan-out (the source has 22)
InitFree == 1        \* free credits of the user at the start
InitPaid == 1        \* paid credits of the user at the start
MaxVersion == 2      \* different contents the artifact blob takes
MaxChunks == 2       \* chunks split_documents makes of one artifact
MaxCalls == 3        \* calls of initialize_retriever per behaviour
MaxOutput == 4       \* characters of the longest output of the currency call

\* ------------------------------------------------------ program constants
Retries == 3         \* retry_operation(..., retries=3, ...)
FreeTotal == 3       \* "total": 3 of generate_free_report_task
PaidTotal == 8       \* total_steps = 8 of the paid and the upgrade task
GenRetries == 3      \* retries = 3 of _generate_content and generate_with_openai
InitialWait == 5     \* wait_time = 5 of both

MaxOrders == 2       \* payment records create_order inserts per behaviour
MaxPayCalls == 5     \* calls of the payment routes per behaviour
MaxPayHandlers == 2  \* payment route handlers running at the same time
IdLen == 1           \* hex digits of a user id
MaxRetrievals == 2   \* calls of initialize_retriever over all users per behaviour
Slots == 1..MaxReq
Sections == 1..NumSections
RepIds == 0..MaxReq  \* report 0 exists at the start; report r is made by task r
Tiers == {"free", "paid", "upgrade"}

VARIABLES
    credits,   \* users.credits: [free |-> Int, paid |-> Int]
    reports,   \* reports collection: RepIds -> status ("none" = no record)
    req,       \* request handler r: [pc, tier, target, resp]
    job,       \* Celery task r: result-backend state, meta, worker position
    blob,      \* blob container: the artifact, its hash marker, the zipped index
    FAISS_INDEX_CACHE,  \* the process's dict of loaded indexes (one key)
    call,      \* what the latest initialize_retriever call did and returned
    gen,       \* one section's content-generation call: loop position and result
    cur,       \* the latest get_currency_via_llm call: tier, model outcome, return
    race,      \* two threads in rebuild_faiss_index for one key, and what they share
    pay,       \* payments and coupons collections, Razorpay's captures, payment handlers
    keys       \* blob names and cache keys in use, by the user they were computed for

ledgerVars == <<credits, reports, req, job>>
indexVars == <<blob, FAISS_INDEX_CACHE, call>>
genVars == <<gen>>
curVars == <<cur>>
raceVars == <<race>>
payVars == <<pay>>
keyVars == <<keys>>
vars == <<credits, reports, req, job, blob, FAISS_INDEX_CACHE, call, gen, cur, race, pay, keys>>

\* variant: both routes debit the free bucket
DebitBucket_AlwaysFree(tier) == "free"

\* credit_type the route of each kind of request debits
DebitBucket(tier) == IF tier = "free" THEN "free" ELSE "paid"

\* variant: every refund goes to the paid bucket
RefundBucket_AlwaysPaid(tier) == "paid"

\* credit_type the except handlers of each task refund
RefundBucket(tier) == IF tier = "free" THEN "free" ELSE "paid"

\* the user's balances at the start
StartCredits == [free |-> InitFree, paid |-> InitPaid]

Total(tier) == IF tier = "free" THEN FreeTotal ELSE PaidTotal

NoJob ==
    [state |-> "NONE", current |-> 0, total |-> 0, phase |-> "none",
     attempt |-> 0, sec |-> [s \in Sections |-> "none"],
     ctxFailed |-> FALSE, timedOut |-> FALSE, refunds |-> 0, error |-> "none",
     currency |-> "none", summary |-> "none", ctxRuns |-> 0,
     args |-> [s \in Sections |-> <<>>],
     indexFailed |-> FALSE, cause |-> "none"]

\* request bodies: complete; without 'slug' or 'userideasId'; without the idea
\* text 'problem_response' (for an upgrade: the stored idea has no text)
Inputs == {"ok", "no_slug", "no_idea"}

NoReq == [pc |-> "idle", tier |-> "free", target |-> 0, resp |-> 0, input |-> "ok"]

\* ---- values of the retrieval index cache (utils/document_processing.py)

\* the artifact blob: version ver of its bytes, which split into n chunks (n = 0:
\* the bytes do not parse, or yield no document or no chunk); NoBlob: no such blob
NoBlob == [ver |-> 0, n |-> 0]
Artifacts == [ver : 1..MaxVersion, n : 0..MaxChunks]

\* the hash marker blob does not exist
NoMarker == <<"absent">>

\* None / no index blob / no cache entry; an index otherwise records the artifact
\* it was built from and the chunks it holds
NoIndex == [ver |-> 0, n |-> 0, chunks |-> {}]

\* what a call did besides returning: computed a fingerprint of the artifact,
\* read the object store, wrote the object store, caught an exception of the
\* download or deserialization of the index blob
NoIO == [hashed |-> FALSE, read |-> FALSE, wrote |-> FALSE, loadRaised |-> FALSE]

NoCall ==
    [n |-> 0, hit |-> FALSE, rebuild |-> FALSE, built |-> FALSE, cached |-> FALSE,
     ret |-> NoIndex, at |-> NoBlob, prev |-> NoBlob, before |-> NoMarker,
     failed |-> {}, answer |-> "none", builtSame |-> 0, builtProc |-> 0,
     io |-> NoIO]

\* ---- values of one content-generation call
NoGen ==
    [fn |-> "none", attempt |-> 0, calls |-> 0, wait_time |-> 0,
     slept |-> <<>>, errs |-> <<>>, result |-> "idle"]

\* ---- values of one currency call
NoCur == [tier |-> "none", kind |-> "none", content |-> <<>>,
          raised |-> FALSE, value |-> <<>>]

\* ---- two concurrent rebuilds of one key: the artifact's version, the zipped
\* index blob, the marker blob and the cache entry (each with the build it came
\* from and the artifact version it was made of), and per thread its position
\* and the versions it read
Builders == {"A", "B"}
Unwritten == [by |-> "none", ver |-> 0]
NoRace ==
    [artifact |-> 1, index |-> Unwritten, marker |-> Unwritten, cache |-> Unwritten,
     pc |-> [b \in Builders |-> "start"],
     hashed |-> [b \in Builders |-> 0], docs |-> [b \in Builders |-> 0],
     finished |-> <<>>]

\* ------------------------------------------------- payments: state shape

Orders == 1..MaxOrders
PayHandlers == 1..MaxPayHandlers
Coupons == {"HALF", "FULL"}
NoCoupon == "none"

\* plans_collection.find_one({'planId': plan_id}): the one plan on sale
PlanDoc == [price |-> 100, credits |-> 2]

\* coupons_collection.find_one({"coupon_code": coupon_code}): both coupons apply
\* to the plan and have not expired
CouponDocs ==
    [c \in Coupons |->
        [discount_percentage |-> IF c = "FULL" THEN 100 ELSE 50,
         usage_limit |-> 3]]

\* the payment record before create_order inserts it
NoOrder == [status |-> "none", razorpay_payment_id |-> 0, coupon_code |-> NoCoupon]

\* a handler thread that serves no request; resp is the status of its last response
IdleHandler == [kind |-> "idle", pc |-> "idle", order |-> 0, coupon |-> NoCoupon, resp |-> 0]

\* empty payments collection, unused coupons, nothing captured at Razorpay.
\* credited[o] counts the $inc of paid_credits issued for order o, grants[c] the
\* zero-price grants of coupon c: history the claims speak about
NoPay ==
    [payments |-> [o \in Orders |-> NoOrder],
     coupons |-> [c \in Coupons |-> [used_by |-> FALSE, used_count |-> 0]],
     captured |-> {},
     paid_credits |-> 0,
     free_credits |-> 0,
     credited |-> [o \in Orders |-> 0],
     grants |-> [c \in Coupons |-> 0],
     h |-> [i \in PayHandlers |-> IdleHandler],
     calls |-> 0]

\* ------------------------------------------ blob names and cache keys: shape

\* Strings are sequences of symbols.  A literal of the code that holds no
\* separator ("user_cache", "json", ...) is one symbol; "/", "-" and "." are
\* symbols of their own, and no symbol is a prefix of another, so two sequences
\* are equal exactly when the strings they stand for are equal.
HexChars == {"0", "1"}

RECURSIVE HexStrings(_)
HexStrings(n) ==
    IF n = 0 THEN {<<>>}
    ELSE {<<c>> \o s : c \in HexChars, s \in HexStrings(n - 1)}

\* get_jwt_identity(): str of the user's ObjectId, hex digits of one fixed length
UserIds == HexStrings(IdLen)

\* userIdeasId of the request body, a string the client chooses
IdeaIds == {<<"0">>, <<"1", "-", "0">>, <<"/", "1", "-", "0">>}

\* f"user_cache/{current_user}/{current_user}-{userIdeasId}.json"
ArtifactPath(current_user, userIdeasId) ==
    <<"user_cache", "/">> \o current_user \o <<"/">> \o current_user
        \o <<"-">> \o userIdeasId \o <<".", "json">>

\* file paths initialize_retriever can be called with: the artifact of any user's
\* idea, and names that carry no directory or no .json suffix
Paths ==
    {ArtifactPath(u, i) : u \in UserIds, i \in IdeaIds}
        \cup {i \o <<".", "json">> : i \in IdeaIds}
        \cup {i \o <<".", "txt">> : i \in IdeaIds}

\* no key stored, no blob uploaded, initialize_retriever not called yet
NoKeys ==
    [FAISS_INDEX_CACHE |-> {},
     blobs |-> {},
     ret |-> [n |-> 0, user |-> <<>>, path |-> <<>>, from |-> "none", owner |-> <<>>]]

Init ==
    /\ credits = StartCredits
    /\ reports = [i \in RepIds |-> IF i = 0 THEN "free" ELSE "none"]
    /\ req = [r \in Slots |-> NoReq]
    /\ job = [r \in Slots |-> NoJob]
    /\ blob = [artifact |-> NoBlob, marker |-> NoMarker, index |-> NoIndex]
    /\ FAISS_INDEX_CACHE = NoIndex
    /\ call = NoCall
    /\ gen = NoGen
    /\ cur = NoCur
    /\ race = NoRace
    /\ pay = NoPay
    /\ keys = NoKeys

\* ------------------------------------------------------------ credit ledger

\* collection.update_one({'_id': ...}, {'$inc': {f'credits.{credit_type}_credits': amount}}):
\* MongoDB applies the increment atomically and without any condition on the value
IncCredits(c, credit_type, amount) ==
    [c EXCEPT ![credit_type] = @ + amount]

\* variant: the update is a blind $inc, with no guard on the balance read
DebitAllowed_Blind(current_credits, amount) == TRUE

\* the guard of update_user_credits_by_type on the value it has just read:
\* "if amount < 0 and abs(amount) > current_credits: raise"
DebitAllowed(current_credits, amount) ==
    ~(amount < 0 /\ (0 - amount) > current_credits)

\* the route's own check on the value get_user_credits returned:
\* "if free_credits < 1: return 403" (paid_credits likewise, in both routes)
RouteHasCredit(seen) == ~(seen < 1)

\* ------------------------------------------------------------ submit routes

Running == {r \in Slots : job[r].state = "PROGRESS"}

\* Task ids are handed out in order: request r is made once request r-1 exists.
CanSubmit(r) ==
    /\ req[r].pc = "idle"
    /\ \A q \in Slots : q < r => req[q].pc # "idle"

\* execute_workflow_and_generate_report up to the credit check: a body without
\* 'slug' or 'userideasId' is answered 400 ('problem_response' is not looked at);
\* then the credit document is read (get_user_credits) and the bucket of the
\* access level compared with 1.
SubmitReport(r, tier, input) ==
    /\ tier \in {"free", "paid"}
    /\ input \in Inputs
    /\ CanSubmit(r)
    /\ LET seen == credits[DebitBucket(tier)]
           resp == IF input = "no_slug" THEN 400
                   ELSE IF ~RouteHasCredit(seen) THEN 403
                   ELSE 0
       IN req' = [req EXCEPT ![r] =
                    [pc |-> IF resp = 0 THEN "find" ELSE "rejected",
                     tier |-> tier, target |-> 0, resp |-> resp, input |-> input]]
    /\ UNCHANGED <<credits, reports, job, indexVars, genVars, curVars, raceVars, payVars, keyVars>>

\* variant: the paid bucket is checked before the report's status
UpgradeResponse_CreditFirst(input, status, seen) ==
    IF input = "no_idea" THEN 404
    ELSE IF status = "none" THEN 500
    ELSE IF ~RouteHasCredit(seen) THEN 403
    ELSE IF status # "free" THEN 409
    ELSE 0

\* the early returns of upgrade_report_and_execute_workflow in their order; 0
\* when the request goes on to the debit
UpgradeResponse(input, status, seen) ==
    IF input = "no_idea" THEN 404
    ELSE IF status = "none" THEN 500
    ELSE IF status # "free" THEN 409
    ELSE IF ~RouteHasCredit(seen) THEN 403
    ELSE 0

\* upgrade_report_and_execute_workflow up to the credit check: the stored idea
\* must have a problem_response text (else 404); the report of the slug must
\* exist (else the lookup raises: 500) and be free (else 409); then the paid
\* bucket is read and compared with 1.
SubmitUpgrade(r, target, input) ==
    /\ CanSubmit(r)
    /\ target \in RepIds
    /\ input \in {"ok", "no_idea"}
    /\ LET seen == credits["paid"]
           resp == UpgradeResponse(input, reports[target], seen)
       IN req' = [req EXCEPT ![r] =
                    [pc |-> IF resp = 0 THEN "find" ELSE "rejected",
                     tier |-> "upgrade", resp |-> resp, input |-> input,
                     target |-> IF resp = 0 THEN target ELSE 0]]
    /\ UNCHANGED <<credits, reports, job, indexVars, genVars, curVars, raceVars, payVars, keyVars>>

\* update_user_credits_by_type(user, -1, type), first half: find_one reads the
\* balance and the guard either raises (the route answers 500) or lets the
\* update through.
DebitFind(r) ==
    /\ req[r].pc = "find"
    /\ LET current_credits == credits[DebitBucket(req[r].tier)] IN
         req' = [req EXCEPT ![r] =
                   IF DebitAllowed(current_credits, -1)
                   THEN [@ EXCEPT !.pc = "inc"]
                   ELSE [@ EXCEPT !.pc = "rejected", !.resp = 500]]
    /\ UNCHANGED <<credits, reports, job, indexVars, genVars, curVars, raceVars, payVars, keyVars>>

\* update_user_credits_by_type(user, -1, type), second half: the $inc.
DebitInc(r) ==
    /\ req[r].pc = "inc"
    /\ credits' = IncCredits(credits, DebitBucket(req[r].tier), -1)
    /\ req' = [req EXCEPT ![r].pc = "dispatch"]
    /\ UNCHANGED <<reports, job, indexVars, genVars, curVars, raceVars, payVars, keyVars>>

\* variant: the task is queued before the $inc of the debit
Dispatch_BeforeDebit(r) ==
    /\ req[r].pc = "inc"
    /\ req' = [req EXCEPT ![r].pc = "admitted", ![r].resp = 202]
    /\ job' = [job EXCEPT ![r].state = "PENDING"]
    /\ UNCHANGED <<credits, reports, indexVars, genVars, curVars, raceVars, payVars, keyVars>>

\* task = <task>.delay(...); return 202 with the task id
Dispatch(r) ==
    /\ req[r].pc = "dispatch"
    /\ req' = [req EXCEPT ![r].pc = "admitted", ![r].resp = 202]
    /\ job' = [job EXCEPT ![r].state = "PENDING"]
    /\ UNCHANGED <<credits, reports, indexVars, genVars, curVars, raceVars, payVars, keyVars>>

\* .delay raises (the broker cannot be reached: the route's outer except answers
\* 500) or returns no task id ("Failed to initiate report generation", 500);
\* neither path touches the credits
DispatchFails(r) ==
    /\ req[r].pc = "dispatch"
    /\ req' = [req EXCEPT ![r].pc = "undispatched", ![r].resp = 500]
    /\ UNCHANGED <<credits, reports, job, indexVars, genVars, curVars, raceVars, payVars, keyVars>>

\* ------------------------------------------------------------------- tasks

\* self.update_state(state="PROGRESS", meta={"current": n, "total": ...})
update_state(j, n) == [j EXCEPT !.state = "PROGRESS", !.current = n]

\* The except handlers of the three tasks (generate_free_report_task: "except
\* Exception"; the paid and the upgrade task: "except SoftTimeLimitExceeded" and
\* "except Exception", of which exactly one runs): one refund of the task's
\* bucket, then "raise e", after which Celery stores FAILURE with the exception
\* in place of the progress meta.
Failed(j, err) ==
    [NoJob EXCEPT !.state = "FAILURE", !.error = err,
                  !.refunds = j.refunds + 1,
                  !.ctxFailed = j.ctxFailed, !.timedOut = j.timedOut,
                  !.indexFailed = j.indexFailed,
                  !.cause = IF j.cause = "none" THEN err ELSE j.cause]

\* variant: the refund is issued twice (both except clauses run)
HandleFailure_Twice(r, j, err) ==
    /\ credits' = IncCredits(credits, RefundBucket(req[r].tier), 2)
    /\ job' = [job EXCEPT ![r] = [Failed(j, err) EXCEPT !.refunds = j.refunds + 2]]
    /\ UNCHANGED <<reports, req, indexVars, genVars, curVars, raceVars, payVars, keyVars>>

HandleFailure(r, j, err) ==
    /\ credits' = IncCredits(credits, RefundBucket(req[r].tier), 1)
    /\ job' = [job EXCEPT ![r] = Failed(j, err)]
    /\ UNCHANGED <<reports, req, indexVars, genVars, curVars, raceVars, payVars, keyVars>>

\* the task's own check of the idea text fails: "if not idea: raise Exception(...)"
\* of generate_free_report_task and execute_workflow_and_generate_report_task
\* (the upgrade route has checked the text it passes to its task)
IdeaMissing(r) == req[r].tier \in {"free", "paid"} /\ req[r].input = "no_idea"

\* steps of the paid and upgrade workflow that call through retry_operation
InRetryOperation(r) ==
    /\ job[r].phase = "work"
    /\ req[r].tier # "free"
    /\ job[r].current \in 2..4

\* a worker process takes the task off the queue; the task body's first statement
\* publishes step 1
Start(r) ==
    /\ job[r].state = "PENDING"
    /\ Cardinality(Running) < MaxRunning
    /\ job' = [job EXCEPT ![r] =
                 [update_state(@, 1) EXCEPT !.total = Total(req[r].tier),
                                            !.phase = "work"]]
    /\ UNCHANGED <<credits, reports, req, indexVars, genVars, curVars, raceVars, payVars, keyVars>>

\* variant: the last step is published with a wrong step number
Advance_WrongStep(r) ==
    /\ job[r].state = "PROGRESS"
    /\ job[r].phase = "work"
    /\ ~(IdeaMissing(r) /\ req[r].tier = "paid" /\ job[r].current = 1)
    /\ LET n == job[r].current + 1
           last == IF req[r].tier = "free" THEN 2 ELSE PaidTotal
       IN job' = [job EXCEPT ![r] =
                    [update_state(@, IF n = last THEN 1 ELSE n) EXCEPT !.attempt = 0,
                        !.phase = IF n = last THEN "ctx" ELSE "work"]]
    /\ UNCHANGED <<credits, reports, req, indexVars, genVars, curVars, raceVars, payVars, keyVars>>

\* the work of the current step returns and the next update_state runs.
\* free: step 1 (sleep) -> step 2; paid/upgrade: steps 1..7 -> 2..8.  The last
\* step of either workflow begins with the shared-context computation.
Advance(r) ==
    /\ job[r].state = "PROGRESS"
    /\ job[r].phase = "work"
    /\ ~(IdeaMissing(r) /\ req[r].tier = "paid" /\ job[r].current = 1)
    /\ LET n == job[r].current + 1
           last == IF req[r].tier = "free" THEN 2 ELSE PaidTotal
       IN job' = [job EXCEPT ![r] =
                    [update_state(@, n) EXCEPT !.attempt = 0,
                        !.phase = IF n = last THEN "ctx" ELSE "work"]]
    /\ UNCHANGED <<credits, reports, req, indexVars, genVars, curVars, raceVars, payVars, keyVars>>

\* a step outside retry_operation raises: "Idea is required" at step 1 of the
\* paid task, "Missing problem_response" (or the content generator) at step 2 of
\* the free task, scraping / summarisation / blob upload at steps 5..7, and the
\* JSON conversion and create_report / update_report after the fan-out (phase
\* "persist"), and the upload of the final report file after the report was
\* stored (phase "upload").
StepRaise(r) ==
    /\ job[r].state = "PROGRESS"
    /\ \/ job[r].phase \in {"persist", "upload"}
       \/ req[r].tier = "free" /\ job[r].phase = "ctx"
       \/ /\ job[r].phase = "work"
          /\ \/ IdeaMissing(r) /\ req[r].tier = "paid" /\ job[r].current = 1
             \/ req[r].tier # "free" /\ job[r].current \in 5..7
    /\ HandleFailure(r, job[r], "Exception")

\* retry_operation: the wrapped call raises; the loop catches it ("except
\* Exception"), sleeps and tries again, and after the last attempt raises
\* last_exception.
retry_operation(r, exc) ==
    IF job[r].attempt + 1 < Retries
    THEN /\ job' = [job EXCEPT ![r].attempt = @ + 1,
                               ![r].timedOut = @ \/ exc = "SoftTimeLimitExceeded"]
         /\ UNCHANGED <<credits, reports, req, indexVars, genVars, curVars, raceVars, payVars, keyVars>>
    ELSE HandleFailure(r, [job[r] EXCEPT !.timedOut = @ \/ exc = "SoftTimeLimitExceeded"], exc)

AttemptRaise(r) ==
    /\ job[r].state = "PROGRESS"
    /\ InRetryOperation(r)
    /\ retry_operation(r, "Exception")

\* ------------------------------------------------------- fan-out generator

\* What the orchestrator does when the overall context summary could not be
\* generated.  generate_free_report_content looks for the error placeholder (and
\* catches the exception) and returns {"error": ...} without starting a section;
\* generate_full_final_parallel_executed_report takes whatever string
\* RAGService.generate_response returned, which swallows every exception, and goes on.
SharedContextHalts(tier) == tier = "free"

\* all section tasks are handed to the ThreadPoolExecutor in one loop
Submitted == [s \in Sections |-> "run"]

\* values of the two shared variables: the currency code, and the summary text
\* or the error string that the content generator returns in its place
Currencies == {"USD", "EUR"}
ErrorSummary == "Error invoking retrieval chain."
Summaries == {"summary", ErrorSummary}

\* variant: RAGService.__init__ has no except clause
RAGService_init_NoExcept(indexOk) == [raised |-> ~indexOk, chain |-> indexOk]

\* RAGService.__init__: initialize_retriever and the chain construction under one
\* "except Exception" that only prints; self.chain stays None when the index
\* could not be built or loaded
RAGService_init(indexOk) == [raised |-> FALSE, chain |-> indexOk]

\* Step 1 of the fan-out, sequential: the currency (falls back to USD, never
\* fails), for the paid report the RAG service over the retrieval index, and the
\* overall context summary.  The free fan-out returns an error dict on an error
\* summary; the task then raises KeyError on report["free_report_content"].
SharedContext(r, currency, summary, indexOk) ==
    LET ok == summary # ErrorSummary
        rag == RAGService_init(indexOk)
        j == [job[r] EXCEPT !.indexFailed = ~indexOk]
    IN
    /\ job[r].state = "PROGRESS"
    /\ job[r].phase = "ctx"
    /\ ~(IdeaMissing(r) /\ req[r].tier = "free")
    /\ req[r].tier = "free" => indexOk
    /\ ~indexOk => ~ok
    /\ IF rag.raised
       THEN HandleFailure(r, j, "Exception")
       ELSE IF ok \/ ~SharedContextHalts(req[r].tier)
       THEN /\ job' = [job EXCEPT ![r] =
                        [j EXCEPT !.phase = "submit", !.ctxFailed = ~ok,
                                  !.currency = currency, !.summary = summary,
                                  !.ctxRuns = @ + 1]]
            /\ UNCHANGED <<credits, reports, req, indexVars, genVars, curVars, raceVars, payVars, keyVars>>
       ELSE HandleFailure(r, [j EXCEPT !.ctxFailed = TRUE, !.cause = summary],
                          "KeyError")

\* variant: the free executor.submit passes the values in the paid order
CallArgs_PaidOrder(tier, currency, summary) == <<currency, summary>>

\* the positional arguments of executor.submit after idea and location
CallArgs(tier, currency, summary) ==
    IF tier = "free" THEN <<summary, currency>> ELSE <<currency, summary>>

\* the section functions' parameters after idea and location: (overall_summary,
\* target_currency_symbol) in the free module, (currency_code, overall_summary,
\* rag_service) in the paid module
Bind(tier, a) ==
    IF tier = "free" THEN [summary |-> a[1], currency |-> a[2]]
    ELSE [currency |-> a[1], summary |-> a[2]]

\* Step 2: the loop over the section functions hands each to the executor with
\* the two local variables of step 1
Submit(r) ==
    /\ job[r].state = "PROGRESS"
    /\ job[r].phase = "submit"
    /\ job' = [job EXCEPT ![r].phase = "fan", ![r].sec = Submitted,
                          ![r].args = [s \in Sections |->
                              Bind(req[r].tier,
                                   CallArgs(req[r].tier, job[r].currency,
                                            job[r].summary))]]
    /\ UNCHANGED <<credits, reports, req, indexVars, genVars, curVars, raceVars, payVars, keyVars>>

\* outcomes of one section task: its text, an error placeholder it returned as
\* content, or an exception that future.result() re-raises (free only: RateLimitError
\* and APIError leave _generate_content on the last attempt; a paid section returns
\* generate_response's string in every case)
Outcomes(tier) ==
    IF tier = "free" THEN {"content", "placeholder", "raised"}
    ELSE {"content", "placeholder"}

\* one section task ends in its worker thread; its future holds the outcome
SectionDone(r, s, outcome) ==
    /\ job[r].state = "PROGRESS"
    /\ job[r].phase = "fan"
    /\ job[r].sec[s] = "run"
    /\ outcome \in Outcomes(req[r].tier)
    /\ job[r].indexFailed => outcome = "placeholder"   \* self.chain is None
    /\ job' = [job EXCEPT ![r].sec[s] = outcome]
    /\ UNCHANGED <<credits, reports, req, indexVars, genVars, curVars, raceVars, payVars, keyVars>>

\* variant: no except around future.result(): the exception is not replaced
Collect_Reraise(outcome) == outcome

\* the as_completed loop body, per future: the try stores the task's return value
\* in the section's slot, the except stores an error message there
Collect(outcome) == IF outcome = "raised" THEN "placeholder" ELSE outcome

\* as_completed is exhausted and the executor is left: the report dict is returned
\* to the task (the free task then publishes step 3)
Aggregate(r) ==
    /\ job[r].state = "PROGRESS"
    /\ job[r].phase = "fan"
    /\ \A s \in Sections : job[r].sec[s] # "run"
    /\ job' = [job EXCEPT ![r] =
                 [(IF req[r].tier = "free" THEN update_state(@, FreeTotal) ELSE @)
                    EXCEPT !.phase = "persist",
                           !.sec = [s \in Sections |-> Collect(job[r].sec[s])]]]
    /\ UNCHANGED <<credits, reports, req, indexVars, genVars, curVars, raceVars, payVars, keyVars>>

\* the reports collection after create_report (free: a 'free' record, paid: a
\* 'paid' record) or update_report (upgrade: the record found at admission is
\* set to 'paid')
Stored(r) ==
    CASE req[r].tier = "free" -> [reports EXCEPT ![r] = "free"]
      [] req[r].tier = "paid" -> [reports EXCEPT ![r] = "paid"]
      [] OTHER -> [reports EXCEPT ![req[r].target] = "paid"]

\* Celery stores SUCCESS with the returned dict, which holds the report
Succeeded(j, report) ==
    [NoJob EXCEPT !.state = "SUCCESS", !.sec = report,
                  !.ctxFailed = j.ctxFailed, !.timedOut = j.timedOut,
                  !.indexFailed = j.indexFailed, !.refunds = j.refunds]

\* variant: the upgrade task stores its report with create_report
Returned_UpgradeInserts(r, report) ==
    /\ reports' = [reports EXCEPT ![r] = IF req[r].tier = "free" THEN "free" ELSE "paid"]
    /\ job' = [job EXCEPT ![r] =
                 [NoJob EXCEPT !.state = "SUCCESS", !.sec = report,
                               !.ctxFailed = job[r].ctxFailed,
                               !.timedOut = job[r].timedOut,
                               !.refunds = job[r].refunds]]
    /\ UNCHANGED <<credits, req, indexVars, genVars, curVars, raceVars, payVars, keyVars>>

\* The task returns: create_report (free, paid) or update_report (upgrade) has
\* stored the report, and Celery stores SUCCESS with the report as the result.
Returned(r, report) ==
    /\ reports' = Stored(r)
    /\ job' = [job EXCEPT ![r] = Succeeded(job[r], report)]
    /\ UNCHANGED <<credits, req, indexVars, genVars, curVars, raceVars, payVars, keyVars>>

\* the paid and the upgrade task store the report (create_report / update_report)
\* and then upload the final report file; the free task returns after create_report
Store(r) ==
    /\ job[r].state = "PROGRESS"
    /\ job[r].phase = "persist"
    /\ req[r].tier # "free"
    /\ reports' = Stored(r)
    /\ job' = [job EXCEPT ![r].phase = "upload"]
    /\ UNCHANGED <<credits, req, indexVars, genVars, curVars, raceVars, payVars, keyVars>>

\* the task returns its result
Finish(r) ==
    /\ job[r].state = "PROGRESS"
    /\ IF req[r].tier = "free"
       THEN job[r].phase = "persist" /\ Returned(r, job[r].sec)
       ELSE /\ job[r].phase = "upload"
            /\ job' = [job EXCEPT ![r] = Succeeded(job[r], job[r].sec)]
            /\ UNCHANGED <<credits, reports, req, indexVars, genVars, curVars, raceVars, payVars, keyVars>>

\* ------------------------------------------------------------- time limit

\* Where the SoftTimeLimitExceeded that the worker raises in the task's main
\* thread is caught before it reaches the task's handlers: inside the catch-all of
\* get_currency_via_llm, _generate_content and RAGService.generate_response while
\* the shared context is computed.  (retry_operation has its own rule above.)
SwallowedBySharedContext(r) == job[r].phase = "ctx"

\* variant: the limit also hits a task that has not published a step yet
Timeout_Queued(r) ==
    /\ job[r].state \in {"PENDING", "PROGRESS"}
    /\ ~job[r].timedOut
    /\ HandleFailure(r, [job[r] EXCEPT !.timedOut = TRUE], "SoftTimeLimitExceeded")

\* The worker's soft time limit expires (once per task) while the task runs.
Timeout(r) ==
    /\ job[r].state = "PROGRESS"
    /\ ~job[r].timedOut
    /\ IF InRetryOperation(r)
       THEN retry_operation(r, "SoftTimeLimitExceeded")
       ELSE IF SwallowedBySharedContext(r)
       THEN /\ job' = [job EXCEPT ![r].timedOut = TRUE]
            /\ UNCHANGED <<credits, reports, req, indexVars, genVars, curVars, raceVars, payVars, keyVars>>
       ELSE HandleFailure(r, [job[r] EXCEPT !.timedOut = TRUE], "SoftTimeLimitExceeded")

\* ------------------------------------------------------------ status route

\* workflow_task_status: what a poll of task r returns in the current state.
\* hasStep: the progress object carries "current"/"total" (it is {} while PENDING,
\* the state of a task id the backend knows nothing about).
workflow_task_status(r) ==
    LET state == IF job[r].state = "NONE" THEN "PENDING" ELSE job[r].state IN
    CASE state = "PROGRESS" ->
           [state |-> state, hasStep |-> TRUE, current |-> job[r].current,
            total |-> job[r].total, result |-> FALSE, error |-> "none"]
      [] state = "SUCCESS" ->
           [state |-> state, hasStep |-> TRUE, current |-> 1, total |-> 1,
            result |-> TRUE, error |-> "none"]
      [] state = "FAILURE" ->
           [state |-> state, hasStep |-> TRUE, current |-> 0, total |-> 0,
            result |-> FALSE, error |-> job[r].error]
      [] OTHER ->
           [state |-> state, hasStep |-> FALSE, current |-> 0, total |-> 0,
            result |-> FALSE, error |-> "none"]

\* ------------------------------------------------- retrieval index cache

\* compute_file_hash: SHA-256 of the blob's bytes (distinct bytes, distinct
\* digests); "" when the download raises
compute_file_hash(a) ==
    IF a = NoBlob THEN <<>> ELSE <<"sha256", a.ver, a.n>>

\* variant: the marker is left as it is when the hashes differ
check_file_for_changes_KeepMarker(b) ==
    LET current_hash == compute_file_hash(b.artifact) IN
    IF b.marker # NoMarker /\ current_hash = b.marker
    THEN [changed |-> FALSE, marker |-> b.marker]
    ELSE [changed |-> TRUE, marker |-> b.marker]

\* check_file_for_changes: compares the artifact's hash with the marker blob and,
\* unless they are equal, uploads the new hash as the marker before returning True
check_file_for_changes(b) ==
    LET current_hash == compute_file_hash(b.artifact) IN
    IF b.marker # NoMarker /\ current_hash = b.marker
    THEN [changed |-> FALSE, marker |-> b.marker]
    ELSE [changed |-> TRUE, marker |-> current_hash]

\* the rebuild gets as far as computing embeddings
Embeds(b) == b.artifact # NoBlob /\ b.artifact.n > 0

\* rebuild_faiss_index on blob state b, the embedding call failing for the chunks
\* in failed: None when the blob is missing, or yields no documents or no chunks;
\* list(executor.map(embed_query, ...)) re-raises the first failure, which the
\* function's except turns into None; otherwise the index over all chunks is
\* uploaded, then the marker
rebuild_faiss_index(b, failed) ==
    IF ~Embeds(b) \/ failed # {}
    THEN [index |-> NoIndex, blob |-> b]
    ELSE LET vectorstore == [ver |-> b.artifact.ver, n |-> b.artifact.n,
                             chunks |-> 1..b.artifact.n]
         IN [index |-> vectorstore,
             blob |-> [b EXCEPT !.index = vectorstore,
                                !.marker = compute_file_hash(b.artifact)]]

\* RAGService.generate_response with the retriever initialize_retriever returned:
\* without a retriever the chain cannot be invoked and the except returns a message
generate_response(retriever) ==
    IF retriever = NoIndex THEN "Error invoking retrieval chain." ELSE "answer"

\* what a call leaves in the history record
Called(hit, rebuild, ret, cached, failed, io) ==
    [n |-> call.n + 1, io |-> io, hit |-> hit, rebuild |-> rebuild,
     built |-> rebuild /\ ret # NoIndex, cached |-> cached, ret |-> ret,
     at |-> blob.artifact, prev |-> call.at, before |-> blob.marker,
     failed |-> failed, answer |-> generate_response(ret),
     builtSame |-> call.builtSame + (IF rebuild /\ ret # NoIndex THEN 1 ELSE 0),
     builtProc |-> call.builtProc + (IF rebuild /\ ret # NoIndex THEN 1 ELSE 0)]

\* variant: the index blob is never loaded
UsePersisted_Never(changed, index) == FALSE

\* if not check_file_for_changes(...): if blob_exists(blob_index_name): try to load
UsePersisted(changed, index) == ~changed /\ index # NoIndex

\* variant: the cache is not consulted
CacheHit_Never(cache) == FALSE

\* if blob_index_name in FAISS_INDEX_CACHE
CacheHit(cache) == cache # NoIndex

\* initialize_retriever, called by RAGService.__init__.  failed: chunks whose
\* embedding call raises; loadOk: the index blob downloads and deserializes.
initialize_retriever(failed, loadOk) ==
    /\ call.n < MaxCalls
    /\ failed \subseteq 1..blob.artifact.n
    /\ IF CacheHit(FAISS_INDEX_CACHE)
       THEN /\ call' = Called(TRUE, FALSE, FAISS_INDEX_CACHE, FALSE, {}, NoIO)
            /\ UNCHANGED <<blob, FAISS_INDEX_CACHE>>
       ELSE LET c == check_file_for_changes(blob)
                b == [blob EXCEPT !.marker = c.marker]
                \* check_file_for_changes hashes the downloaded artifact, reads
                \* the marker blob and uploads the marker when it differs
                checked == [hashed |-> TRUE, read |-> TRUE, wrote |-> c.changed,
                            loadRaised |-> UsePersisted(c.changed, b.index)
                                              /\ ~loadOk]
            IN IF UsePersisted(c.changed, b.index) /\ loadOk
               THEN /\ blob' = b
                    /\ FAISS_INDEX_CACHE' = b.index
                    /\ call' = Called(FALSE, FALSE, b.index, TRUE, {}, checked)
               ELSE LET r == rebuild_faiss_index(b, failed) IN
                    /\ blob' = r.blob
                    /\ FAISS_INDEX_CACHE' =
                          IF r.index # NoIndex THEN r.index ELSE FAISS_INDEX_CACHE
                    /\ call' = Called(FALSE, TRUE, r.index, r.index # NoIndex,
                                      IF Embeds(b) THEN failed ELSE {},
                                      [checked EXCEPT !.wrote =
                                          @ \/ r.index # NoIndex])
    /\ UNCHANGED <<ledgerVars, genVars, curVars, raceVars, payVars, keyVars>>

\* the paid and the upgrade task upload the intermediate artifact (overwriting
\* the blob) before the report is generated from it
PutArtifact(a) ==
    /\ a \in Artifacts
    /\ a # blob.artifact
    /\ blob' = [blob EXCEPT !.artifact = a]
    /\ call' = [call EXCEPT !.builtSame = 0]
    /\ UNCHANGED <<FAISS_INDEX_CACHE, ledgerVars, genVars, curVars, raceVars, payVars, keyVars>>

\* a process starts with an empty FAISS_INDEX_CACHE (module initialisation); the
\* worker processes and the web process each hold their own
Restart ==
    /\ FAISS_INDEX_CACHE # NoIndex
    /\ FAISS_INDEX_CACHE' = NoIndex
    /\ call' = [call EXCEPT !.builtProc = 0]
    /\ UNCHANGED <<blob, ledgerVars, genVars, curVars, raceVars, payVars, keyVars>>

\* ------------------------------------------------ content-generation call

\* exceptions client.chat.completions.create raises: RateLimitError and
\* BadRequestError are APIError subclasses of the openai package
ErrorKinds == {"RateLimitError", "APIError", "BadRequestError", "Exception"}

\* the except clause of _generate_content that catches an exception of this kind
ExceptClause(kind) ==
    IF kind = "RateLimitError" THEN "RateLimitError"
    ELSE IF kind \in {"APIError", "BadRequestError"} THEN "APIError"
    ELSE "Exception"

\* a section task enters _generate_content or generate_with_openai
GenBegin(fn) ==
    /\ gen.result # "running"
    /\ fn \in {"_generate_content", "generate_with_openai"}
    /\ gen' = [NoGen EXCEPT !.fn = fn, !.wait_time = InitialWait,
                            !.result = "running"]
    /\ UNCHANGED <<ledgerVars, indexVars, curVars, raceVars, payVars, keyVars>>

\* time.sleep(wait_time); wait_time *= 2; next iteration of the for loop
SleepAndRetry(g) ==
    [g EXCEPT !.slept = Append(@, g.wait_time), !.wait_time = 2 * @,
              !.attempt = @ + 1]

\* one iteration of "for attempt in range(retries)": the API call and what the
\* function does with its outcome ("ok" or the kind of exception raised)
GenAttempt(outcome) ==
    /\ gen.result = "running"
    /\ outcome \in ErrorKinds \cup {"ok"}
    /\ LET g == [gen EXCEPT !.calls = @ + 1,
                            !.errs = IF outcome = "ok" THEN @ ELSE Append(@, outcome)]
           lastAttempt == gen.attempt = GenRetries - 1
       IN gen' =
            IF outcome = "ok" THEN [g EXCEPT !.result = "content"]
            ELSE IF gen.fn = "_generate_content"
            THEN IF ExceptClause(outcome) \in {"RateLimitError", "APIError"}
                 THEN IF lastAttempt THEN [g EXCEPT !.result = "raised"]
                      ELSE SleepAndRetry(g)
                 ELSE IF lastAttempt THEN [g EXCEPT !.result = "placeholder"]
                      ELSE SleepAndRetry(g)
            ELSE IF gen.attempt < GenRetries - 1 THEN SleepAndRetry(g)
                 ELSE [g EXCEPT !.result = "placeholder"]
    /\ UNCHANGED <<ledgerVars, indexVars, curVars, raceVars, payVars, keyVars>>

\* ------------------------------------------------------------ specification

\* Job level: one request and its task, step by step.
OnlyRequest == \A q \in Slots : req[q].pc = "idle"

SubmitOneReport(r, tier, input) == OnlyRequest /\ SubmitReport(r, tier, input)

SubmitOneUpgrade(r, target, input) == OnlyRequest /\ SubmitUpgrade(r, target, input)

NextJob ==
    \/ \E r \in Slots, tier \in {"free", "paid"}, input \in Inputs :
          SubmitOneReport(r, tier, input)
    \/ \E r \in Slots, target \in RepIds, input \in {"ok", "no_idea"} :
          SubmitOneUpgrade(r, target, input)
    \/ \E r \in Slots : DebitFind(r)
    \/ \E r \in Slots : DebitInc(r)
    \/ \E r \in Slots : Dispatch(r)
    \/ \E r \in Slots : Start(r)
    \/ \E r \in Slots : Advance(r)
    \/ \E r \in Slots : StepRaise(r)
    \/ \E r \in Slots : AttemptRaise(r)
    \/ \E r \in Slots, currency \in Currencies, summary \in Summaries,
          indexOk \in BOOLEAN : SharedContext(r, currency, summary, indexOk)
    \/ \E r \in Slots : Submit(r)
    \/ \E r \in Slots, s \in Sections, o \in {"content", "placeholder", "raised"} :
          SectionDone(r, s, o)
    \/ \E r \in Slots : Aggregate(r)
    \/ \E r \in Slots : Store(r)
    \/ \E r \in Slots : Finish(r)
    \/ \E r \in Slots : Timeout(r)

SpecJob == Init /\ [][NextJob]_vars

\* The search of step 4 is requests.get(url, params=params), with no timeout: a
\* server that accepts the connection and never answers keeps the call, and the
\* task inside retry_operation, waiting.
ExternalCallHangs(r) ==
    /\ job[r].state = "PROGRESS"
    /\ job[r].phase = "work"
    /\ req[r].tier # "free"
    /\ job[r].current = 4
    /\ job' = [job EXCEPT ![r].phase = "hung"]
    /\ UNCHANGED <<credits, reports, req, indexVars, genVars, curVars, raceVars, payVars, keyVars>>

\* the steps the worker process takes on a task it holds
WorkerStep ==
    \E r \in Slots :
        \/ Start(r) \/ Advance(r) \/ StepRaise(r) \/ AttemptRaise(r)
        \/ Submit(r) \/ Aggregate(r) \/ Store(r) \/ Finish(r)
        \/ \E currency \in Currencies, summary \in Summaries, indexOk \in BOOLEAN :
              SharedContext(r, currency, summary, indexOk)
        \/ \E s \in Sections, o \in {"content", "placeholder", "raised"} :
              SectionDone(r, s, o)

NextJobFair ==
    \/ NextJob
    \/ \E r \in Slots : ExternalCallHangs(r)

\* Job level under a fair worker: a worker that can take a step of its task
\* eventually takes one.  No time limit is configured (the Celery configuration
\* sets none), so the expiry of a limit is possible but not assured.
SpecJobFair == Init /\ [][NextJobFair]_vars /\ WF_vars(WorkerStep)

\* Ledger level: concurrent requests of the user; each task body is run as a
\* whole, to its return or to its except handler.
TaskReturns(r, report) ==
    /\ job[r].state = "PROGRESS"
    /\ ~IdeaMissing(r)
    /\ report \in [Sections -> {"content", "placeholder"}]
    /\ Returned(r, report)

TaskRaises(r, err) ==
    /\ job[r].state = "PROGRESS"
    /\ HandleFailure(r, job[r], err)

\* the paid or the upgrade task raises in the upload of the final report file,
\* after create_report / update_report: the handler refunds, the record stays
TaskRaisesAfterStore(r, err) ==
    /\ job[r].state = "PROGRESS"
    /\ req[r].tier # "free"
    /\ ~IdeaMissing(r)
    /\ reports' = Stored(r)
    /\ credits' = IncCredits(credits, RefundBucket(req[r].tier), 1)
    /\ job' = [job EXCEPT ![r] = Failed(job[r], err)]
    /\ UNCHANGED <<req, indexVars, genVars, curVars, raceVars, payVars, keyVars>>

Next ==
    \/ \E r \in Slots, tier \in {"free", "paid"}, input \in Inputs :
          SubmitReport(r, tier, input)
    \/ \E r \in Slots, target \in RepIds, input \in {"ok", "no_idea"} :
          SubmitUpgrade(r, target, input)
    \/ \E r \in Slots : DebitFind(r)
    \/ \E r \in Slots : DebitInc(r)
    \/ \E r \in Slots : Dispatch(r)
    \/ \E r \in Slots : Start(r)
    \/ \E r \in Slots, report \in [Sections -> {"content", "placeholder"}] :
          TaskReturns(r, report)
    \/ \E r \in Slots, err \in {"Exception", "KeyError", "SoftTimeLimitExceeded"} :
          TaskRaises(r, err)
    \/ \E r \in Slots, err \in {"Exception", "SoftTimeLimitExceeded"} :
          TaskRaisesAfterStore(r, err)

Spec == Init /\ [][Next]_vars

\* Ledger level with an unreliable broker: as above, and the dispatch can fail
NextDispatch ==
    \/ Next
    \/ \E r \in Slots : DispatchFails(r)

SpecDispatch == Init /\ [][NextDispatch]_vars

\* Retrieval index cache: the artifact is replaced, processes restart, and
\* initialize_retriever is called.
NextIndex ==
    \/ \E a \in Artifacts : PutArtifact(a)
    \/ Restart
    \/ \E failed \in SUBSET (1..MaxChunks), loadOk \in BOOLEAN :
          initialize_retriever(failed, loadOk)

SpecIndex == Init /\ [][NextIndex]_vars

\* One section's content-generation call after another.
NextGen ==
    \/ \E fn \in {"_generate_content", "generate_with_openai"} : GenBegin(fn)
    \/ \E outcome \in ErrorKinds \cup {"ok"} : GenAttempt(outcome)

SpecGen == Init /\ [][NextGen]_vars

\* ---- currency helper (get_currency_via_llm of the free and of the paid module)
\* Characters of a model output: an uppercase letter, a lowercase letter, a
\* blank, a digit, and the letter sharp s, whose str.upper() is "SS".
Chars == {"U", "e", " ", "7", "sz"}

Outputs == UNION {[1..n -> Chars] : n \in 0..MaxOutput}

\* what client.chat.completions.create(...).choices[0].message.content gives:
\* the call raises, the content is None, or the content is a string
OutcomeKinds == {"raises", "None", "str"}

USD == <<"U", "S", "D">>

\* str.upper() of one character
upper_char(c) ==
    CASE c = "e" -> <<"E">>
      [] c = "sz" -> <<"S", "S">>
      [] OTHER -> <<c>>

RECURSIVE upper(_)
upper(s) == IF s = <<>> THEN <<>> ELSE upper_char(Head(s)) \o upper(Tail(s))

RECURSIVE lstrip(_)
lstrip(s) == IF s # <<>> /\ Head(s) = " " THEN lstrip(Tail(s)) ELSE s

RECURSIVE rstrip(_)
rstrip(s) ==
    IF s # <<>> /\ s[Len(s)] = " " THEN rstrip(SubSeq(s, 1, Len(s) - 1)) ELSE s

\* str.strip()
strip(s) == rstrip(lstrip(s))

\* variant: the pattern checks the length only
fullmatch_LengthOnly(s) == Len(s) = 3

\* re.fullmatch(r"^[A-Z]{3}$", s)
fullmatch(s) == Len(s) = 3 /\ \A i \in 1..3 : s[i] \in {"U", "E", "S", "D"}

\* currency_code: content.strip() in the free module, content.strip().upper()
\* in the paid module; a content of None has no strip and raises
currency_code(tier, content) ==
    IF tier = "free" THEN strip(content) ELSE upper(strip(content))

\* the try block: [raised, value]
TryBlock(tier, kind, content) ==
    IF kind # "str"
    THEN [raised |-> TRUE, value |-> <<>>]
    ELSE [raised |-> FALSE,
          value |-> IF fullmatch(currency_code(tier, content))
                    THEN currency_code(tier, content)
                    ELSE USD]

\* except Exception: return "USD"
get_currency_via_llm(tier, kind, content) ==
    LET t == TryBlock(tier, kind, content) IN
    /\ cur = NoCur           \* one call a behaviour: the helper keeps no state
    /\ cur' = [tier |-> tier, kind |-> kind, content |-> content,
               raised |-> FALSE,
               value |-> IF t.raised THEN USD ELSE t.value]
    /\ UNCHANGED <<ledgerVars, indexVars, genVars, raceVars, payVars, keyVars>>

NextCurrency ==
    \E tier \in {"free", "paid"}, kind \in OutcomeKinds, content \in Outputs :
        /\ kind # "str" => content = <<>>
        /\ get_currency_via_llm(tier, kind, content)

SpecCurrency == Init /\ [][NextCurrency]_vars

\* ---- concurrent rebuilds (initialize_retriever past the cache miss, in two
\* threads of one process; nothing in the module takes a lock)
\* thread b is at position from; nothing outside the race changes
RaceStep(b, from) ==
    /\ race.pc[b] = from
    /\ UNCHANGED <<ledgerVars, indexVars, genVars, curVars, payVars, keyVars>>

\* current_hash = compute_file_hash(file_path)
HashArtifact(b) ==
    /\ RaceStep(b, "start")
    /\ race' = [race EXCEPT !.pc[b] = "hashed", !.hashed[b] = race.artifact]

\* preprocess_json(file_path) downloads the artifact again; chunks and embeddings
\* are made of that copy
BuildIndex(b) ==
    /\ RaceStep(b, "hashed")
    /\ race' = [race EXCEPT !.pc[b] = "built", !.docs[b] = race.artifact]

\* upload_blob_data(blob_index_name, ...)
UploadIndex(b) ==
    /\ RaceStep(b, "built")
    /\ race' = [race EXCEPT !.pc[b] = "indexed",
                            !.index = [by |-> b, ver |-> race.docs[b]]]

\* upload_blob_data(blob_hash_name, current_hash)
UploadMarker(b) ==
    /\ RaceStep(b, "indexed")
    /\ race' = [race EXCEPT !.pc[b] = "marked",
                            !.marker = [by |-> b, ver |-> race.hashed[b]]]

\* back in initialize_retriever: FAISS_INDEX_CACHE[blob_index_name] = vectorstore
CacheIndex(b) ==
    /\ RaceStep(b, "marked")
    /\ race' = [race EXCEPT !.pc[b] = "done",
                            !.cache = [by |-> b, ver |-> race.docs[b]],
                            !.finished = Append(@, b)]

\* the scraper's task replaces the artifact while rebuilds run
ReplaceArtifact ==
    /\ race.artifact < MaxVersion
    /\ race' = [race EXCEPT !.artifact = @ + 1]
    /\ UNCHANGED <<ledgerVars, indexVars, genVars, curVars, payVars, keyVars>>

NextRace ==
    \/ \E b \in Builders : HashArtifact(b)
    \/ \E b \in Builders : BuildIndex(b)
    \/ \E b \in Builders : UploadIndex(b)
    \/ \E b \in Builders : UploadMarker(b)
    \/ \E b \in Builders : CacheIndex(b)
    \/ ReplaceArtifact

SpecRace == Init /\ [][NextRace]_vars

\* ---------------------------------------------------------------- payments
\* The user buys the plan through routes/payments: create_order inserts a pending
\* payment record (or grants free credits when a coupon brings the price to zero),
\* the customer pays the order at Razorpay, and verify_payment (called by the
\* browser) and webhook (called by Razorpay, which may deliver an event again)
\* mark the record paid and add the credits.  mark_payment_failed and
\* mark_cancelled are called by the browser when the checkout fails or is closed.
\* Each handler thread runs one request; a handler's database operations are
\* separate steps where a read decides a later write.

PayFrame == UNCHANGED <<ledgerVars, indexVars, genVars, curVars, raceVars, keyVars>>

\* a request reaches an idle handler thread
Accept(i) ==
    /\ pay.h[i].kind = "idle"
    /\ pay.calls < MaxPayCalls

\* return jsonify(...), code
Respond(code) == [IdleHandler EXCEPT !.resp = code]

\* the handler goes on to its write
Pending(kind, pc, o, c) == [kind |-> kind, pc |-> pc, order |-> o, coupon |-> c, resp |-> 0]

\* the id Razorpay gives the captured payment of order o
PaymentId(o) == o

\* validate_coupon_code(user_id, coupon_code, plan_id, original_price): the checks on
\* used_by and used_count, then the discounted price
validate_coupon_code(coupon_code, original_price) ==
    LET coupon == CouponDocs[coupon_code]
        usage == pay.coupons[coupon_code]
        discount_amount == (coupon.discount_percentage * original_price) \div 100
        final_price == IF original_price - discount_amount > 0
                       THEN original_price - discount_amount ELSE 0
    IN  IF usage.used_by THEN [status |-> 400, final_price |-> original_price]
        ELSE IF usage.used_count >= coupon.usage_limit
             THEN [status |-> 400, final_price |-> original_price]
             ELSE [status |-> 200, final_price |-> final_price]

\* '$inc': {'used_count': 1}, '$addToSet': {'used_by': user_id}
MarkUsed(coupons, c) ==
    IF c = NoCoupon THEN coupons
    ELSE [coupons EXCEPT ![c] = [used_by |-> TRUE, used_count |-> @.used_count + 1]]

\* create_order up to the coupon decision: the coupon is validated against the
\* coupon document as it is now; nothing marks it as taken
create_order(i, c) ==
    /\ Accept(i)
    /\ Cardinality({o \in Orders : pay.payments[o].status # "none"})
         + Cardinality({j \in PayHandlers : pay.h[j].pc = "insert"}) < MaxOrders
    /\ LET v == IF c = NoCoupon THEN [status |-> 200, final_price |-> PlanDoc.price]
                ELSE validate_coupon_code(c, PlanDoc.price)
       IN  pay' = [pay EXCEPT
                     !.calls = @ + 1,
                     !.h[i] = IF v.status # 200 THEN Respond(v.status)
                              ELSE IF c # NoCoupon /\ v.final_price = 0
                                   THEN Pending("create", "grant", 0, c)
                                   ELSE Pending("create", "insert", 0, c)]
    /\ PayFrame

\* final_price == 0: $inc of free_credits, then the coupon is marked used
GrantFreeCredits(i) ==
    /\ pay.h[i].pc = "grant"
    /\ LET c == pay.h[i].coupon
       IN  pay' = [pay EXCEPT
                     !.free_credits = @ + PlanDoc.credits,
                     !.coupons = MarkUsed(@, c),
                     !.grants[c] = @ + 1,
                     !.h[i] = Respond(200)]
    /\ PayFrame

\* razorpay_client.order.create and payments_collection.insert_one(payment)
InsertPayment(i) ==
    /\ pay.h[i].pc = "insert"
    /\ LET o == CHOOSE o \in Orders :
                   /\ pay.payments[o].status = "none"
                   /\ \A q \in Orders : pay.payments[q].status = "none" => o <= q
       IN  pay' = [pay EXCEPT
                     !.payments[o] = [status |-> "pending",
                                      razorpay_payment_id |-> 0,
                                      coupon_code |-> pay.h[i].coupon],
                     !.h[i] = Respond(200)]
    /\ PayFrame

\* the customer pays order o in the Razorpay checkout; Razorpay captures one
\* payment per order and knows nothing of the record's status
Capture(o) ==
    /\ pay.payments[o].status # "none"
    /\ o \notin pay.captured
    /\ pay' = [pay EXCEPT !.captured = @ \cup {o}]
    /\ PayFrame

\* verify_payment steps 1 to 6 for a payment Razorpay reports as captured with the
\* order's amount (any other request is answered 400 before the record is read):
\* the record is found, and the payment id must not be stored on any record
verify_payment(i, o) ==
    /\ Accept(i)
    /\ o \in pay.captured
    /\ pay' = [pay EXCEPT
                 !.calls = @ + 1,
                 !.h[i] = IF \E q \in Orders :
                                pay.payments[q].razorpay_payment_id = PaymentId(o)
                          THEN Respond(400)
                          ELSE Pending("verify", "update", o, NoCoupon)]
    /\ PayFrame

\* webhook for a payment.captured event with a valid signature: the record is
\* found, and an event for a record that is paid is acknowledged
webhook(i, o) ==
    /\ Accept(i)
    /\ o \in pay.captured
    /\ pay' = [pay EXCEPT
                 !.calls = @ + 1,
                 !.h[i] = IF pay.payments[o].status = "paid"
                          THEN Respond(200)
                          ELSE Pending("webhook", "update", o, NoCoupon)]
    /\ PayFrame

\* update_one({'order_id': ..., 'status': {'$in': ['pending', 'failed']}},
\* {'$set': {'status': 'paid', ...}}); when it modified the record: $inc of
\* paid_credits by payment['credits'] and the coupon's usage update
MarkPaid(i) ==
    /\ pay.h[i].pc = "update"
    /\ LET o == pay.h[i].order
           payment == pay.payments[o]
       IN  IF payment.status \in {"pending", "failed"}
           THEN pay' = [pay EXCEPT
                          !.payments[o].status = "paid",
                          !.payments[o].razorpay_payment_id = PaymentId(o),
                          !.paid_credits = @ + PlanDoc.credits,
                          !.credited[o] = @ + 1,
                          !.coupons = MarkUsed(@, payment.coupon_code),
                          !.h[i] = Respond(200)]
           ELSE pay' = [pay EXCEPT !.h[i] = Respond(400)]
    /\ PayFrame

\* verify_payment step 8 to the end
VerifyUpdate(i) ==
    /\ pay.h[i].kind = "verify"
    /\ MarkPaid(i)

\* webhook from its update_one to the end
WebhookUpdate(i) ==
    /\ pay.h[i].kind = "webhook"
    /\ MarkPaid(i)

\* mark_payment_failed: the record is looked up, then update_one({"order_id":
\* order_id}, {"$set": {"status": "failed", ...}}) whatever its status is
mark_payment_failed(i, o) ==
    /\ Accept(i)
    /\ pay' = IF pay.payments[o].status = "none"
              THEN [pay EXCEPT !.calls = @ + 1, !.h[i] = Respond(404)]
              ELSE [pay EXCEPT !.calls = @ + 1,
                               !.payments[o].status = "failed",
                               !.h[i] = Respond(200)]
    /\ PayFrame

\* mark_cancelled up to its status checks
mark_cancelled(i, o) ==
    /\ Accept(i)
    /\ LET status == pay.payments[o].status
       IN  pay' = [pay EXCEPT
                     !.calls = @ + 1,
                     !.h[i] = IF status = "none" THEN Respond(400)
                              ELSE IF status = "failed" THEN Respond(200)
                              ELSE IF status # "pending" THEN Respond(400)
                              ELSE Pending("cancel", "update", o, NoCoupon)]
    /\ PayFrame

\* update_one({'order_id': order_id, 'status': 'pending'}, {'$set': {'status':
\* 'cancelled'}}); both outcomes are answered 200
CancelUpdate(i) ==
    /\ pay.h[i].kind = "cancel"
    /\ pay.h[i].pc = "update"
    /\ LET o == pay.h[i].order
       IN  pay' = [pay EXCEPT
                     !.payments[o].status =
                         IF @ = "pending" THEN "cancelled" ELSE @,
                     !.h[i] = Respond(200)]
    /\ PayFrame

NextPayment ==
    \/ \E i \in PayHandlers, c \in Coupons \cup {NoCoupon} : create_order(i, c)
    \/ \E i \in PayHandlers : GrantFreeCredits(i)
    \/ \E i \in PayHandlers : InsertPayment(i)
    \/ \E o \in Orders : Capture(o)
    \/ \E i \in PayHandlers, o \in Orders : verify_payment(i, o)
    \/ \E i \in PayHandlers : VerifyUpdate(i)
    \/ \E i \in PayHandlers, o \in Orders : webhook(i, o)
    \/ \E i \in PayHandlers : WebhookUpdate(i)
    \/ \E i \in PayHandlers, o \in Orders : mark_payment_failed(i, o)
    \/ \E i \in PayHandlers, o \in Orders : mark_cancelled(i, o)
    \/ \E i \in PayHandlers : CancelUpdate(i)

SpecPayment == Init /\ [][NextPayment]_vars

\* ------------------------------------------------- blob names and cache keys
\* initialize_retriever for any user and file path of one process and one blob
\* container.  An entry of FAISS_INDEX_CACHE or of the container carries the
\* user whose call stored it; what the index holds is the subject of SpecIndex.

\* position of the last ch in s, 0 when there is none
LastIndex(s, ch) ==
    IF \E k \in 1..Len(s) : s[k] = ch
    THEN CHOOSE k \in 1..Len(s) : s[k] = ch /\ \A q \in (k + 1)..Len(s) : s[q] # ch
    ELSE 0

\* os.path.basename(file_path): what follows the last "/"
basename(file_path) == SubSeq(file_path, LastIndex(file_path, "/") + 1, Len(file_path))

\* str.startswith, str.endswith
startswith(s, prefix) == Len(prefix) <= Len(s) /\ SubSeq(s, 1, Len(prefix)) = prefix

endswith(s, suffix) ==
    Len(suffix) <= Len(s) /\ SubSeq(s, Len(s) - Len(suffix) + 1, Len(s)) = suffix

\* name of os.path.splitext(base): base up to its last ".", unless that "." only
\* follows leading dots
splitext(base) ==
    LET d == LastIndex(base, ".")
    IN  IF d > 1 /\ \E k \in 1..(d - 1) : base[k] # "." THEN SubSeq(base, 1, d - 1)
        ELSE base

\* get_blob_file_base(user_id, file_path); base[:-5] cuts the symbols "." "json"
get_blob_file_base(user_id, file_path) ==
    LET base == basename(file_path)
    IN  IF startswith(base, user_id \o <<"-">>) /\ endswith(base, <<".", "json">>)
        THEN SubSeq(base, 1, Len(base) - 2)
        ELSE user_id \o <<"-">> \o splitext(base)

\* variant: the index name is made of the file name alone
blob_index_name_PathOnly(user_id, file_path) ==
    <<"user_cache", "/", "faiss_index_">> \o splitext(basename(file_path)) \o <<".", "zip">>

\* blob_index_name = f"user_cache/{user_id}/faiss_index_{blob_base}.zip", which is
\* the key of FAISS_INDEX_CACHE as well
blob_index_name(user_id, file_path) ==
    <<"user_cache", "/">> \o user_id \o <<"/", "faiss_index_">>
        \o get_blob_file_base(user_id, file_path) \o <<".", "zip">>

\* blob_hash_name = f"user_cache/{user_id}/{blob_base}_data_hash.txt"
blob_hash_name(user_id, file_path) ==
    <<"user_cache", "/">> \o user_id \o <<"/">>
        \o get_blob_file_base(user_id, file_path) \o <<"_data_hash", ".", "txt">>

\* d[name] = value of a dict, upload_blob(..., overwrite=True) of the container
Put(entries, name, owner) ==
    {e \in entries : e.name # name} \cup {[name |-> name, owner |-> owner]}

\* initialize_retriever(user_id, file_path).  changed: check_file_for_changes found
\* another hash in the marker than the file has now
Retrieve(user_id, file_path, changed) ==
    /\ keys.ret.n < MaxRetrievals
    /\ LET k == blob_index_name(user_id, file_path)
           m == blob_hash_name(user_id, file_path)
           hit == {e \in keys.FAISS_INDEX_CACHE : e.name = k}
           persisted == {e \in keys.blobs : e.name = k}
           unchanged == (\E e \in keys.blobs : e.name = m) /\ ~changed
           Answer(from, owner) ==
               [n |-> keys.ret.n + 1, user |-> user_id, path |-> file_path,
                from |-> from, owner |-> owner]
       IN  IF hit # {}
           THEN keys' = [keys EXCEPT
                           !.ret = Answer("cache", (CHOOSE e \in hit : TRUE).owner)]
           ELSE IF unchanged /\ persisted # {}
           THEN LET owner == (CHOOSE e \in persisted : TRUE).owner
                IN  keys' = [keys EXCEPT
                               !.FAISS_INDEX_CACHE = Put(@, k, owner),
                               !.ret = Answer("blob", owner)]
           ELSE keys' = [keys EXCEPT
                           !.blobs = Put(Put(@, m, user_id), k, user_id),
                           !.FAISS_INDEX_CACHE = Put(@, k, user_id),
                           !.ret = Answer("rebuilt", user_id)]
    /\ UNCHANGED <<ledgerVars, indexVars, genVars, curVars, raceVars, payVars>>

NextKeys ==
    \E user_id \in UserIds, file_path \in Paths, changed \in BOOLEAN :
        Retrieve(user_id, file_path, changed)

SpecKeys == Init /\ [][NextKeys]_vars

\* ================================================================== claims

Buckets == {"free", "paid"}
Terminal == {"SUCCESS", "FAILURE"}

\* requests whose debit has been applied and not refunded: debited and about to
\* dispatch, queued, running or succeeded
Charged(b) ==
    {r \in Slots :
        /\ DebitBucket(req[r].tier) = b
        /\ \/ req[r].pc = "dispatch"
           \/ job[r].state \in {"PENDING", "PROGRESS", "SUCCESS"}}

\* C1 -- Conservation: each bucket's balance is its initial value minus one for
\* every job of that bucket that is queued (or debited and about to be queued),
\* running or succeeded; a failed job counts for nothing.
C1_Conservation ==
    \A b \in Buckets : credits[b] = StartCredits[b] - Cardinality(Charged(b))

\* a free-bucket job has failed while a paid-bucket job is charged
C1_Witness ==
    \E r, q \in Slots :
        /\ job[r].state = "FAILURE" /\ req[r].tier = "free"
        /\ q \in Charged("paid")

\* C3 -- Admission atomicity: starting from a balance of 1 and with no refund
\* issued, at most one request of a bucket gets past the debit.
C3_OneAdmitted ==
    \A b \in Buckets :
        (StartCredits[b] = 1 /\ \A r \in Slots : job[r].refunds = 0)
            => Cardinality({r \in Slots : /\ DebitBucket(req[r].tier) = b
                                          /\ req[r].pc \in {"dispatch", "admitted"}}) <= 1

\* C4 -- Non-negative balances: both balances are >= 0 in every reachable state.
C4_NonNegative == \A b \in Buckets : credits[b] >= 0

\* C5 -- Insufficient funds: a request that reads a balance below 1, in the route's
\* check or in the guard of the debit, is rejected in that step; the step leaves the
\* balances, the tasks and the reports as they were, and a rejected request never
\* has a task.
C5_Step(r) ==
    LET low == credits[DebitBucket(req'[r].tier)] < 1
        reads == \/ req[r].pc = "idle" /\ req'[r].pc # "idle"
                    /\ req'[r].resp \notin {400, 404, 409}
                    /\ (req'[r].tier = "upgrade" => req'[r].resp # 500)
                 \/ req[r].pc = "find" /\ req'[r].pc # "find"
    IN /\ (reads /\ low) =>
            /\ req'[r].pc = "rejected"
            /\ req'[r].resp \in {403, 500}
            /\ credits' = credits /\ job' = job /\ reports' = reports
       /\ req'[r].pc = "rejected" => job'[r].state = "NONE"
       /\ req[r].pc = "rejected" => req'[r] = req[r]

\* C5 -- every step of every request satisfies the rejection rule above.
C5_InsufficientFundsRejected == [][\A r \in Slots : C5_Step(r)]_vars

\* a request was turned away with 403 at a balance of 0 while another holds a task
C5_Witness ==
    \E r, q \in Slots :
        /\ req[r].pc = "rejected" /\ req[r].resp = 403
        /\ credits[DebitBucket(req[r].tier)] = 0
        /\ req[q].pc = "admitted"

C6_TimeoutFailsJob ==
    \A r \in Slots :
        (job[r].timedOut /\ job[r].state \in Terminal)
            => (job[r].state = "FAILURE" /\ job[r].refunds = 1)

\* what a poll shows of the task's lifecycle
Observed(r) ==
    LET p == workflow_task_status(r) IN <<p.state, p.result, p.error>>

\* C7 -- Job state machine: the polled state moves PENDING -> PROGRESS ->
\* SUCCESS | FAILURE only, and the record of a task in SUCCESS or FAILURE (state,
\* result, error) does not change again.
C7_Step(r) ==
    LET a == workflow_task_status(r).state
        b == workflow_task_status(r)'.state
    IN /\ a # b => <<a, b>> \in {<<"PENDING", "PROGRESS">>,
                                 <<"PROGRESS", "SUCCESS">>,
                                 <<"PROGRESS", "FAILURE">>}
       /\ a \in Terminal => (Observed(r)' = Observed(r) /\ job'[r] = job[r])

\* C7 -- every step of every task follows the state machine above.
C7_StateMachine == [][\A r \in Slots : C7_Step(r)]_vars

\* a task has succeeded with a result
C7_Witness == \E r \in Slots : job[r].state = "SUCCESS" /\ workflow_task_status(r).result

\* C8 (as claimed) -- Monotonic progress: the "current" of successive polls never
\* decreases, and a poll after success has current = total.
C8_Claimed_Step(r) ==
    LET p == workflow_task_status(r)
        q == workflow_task_status(r)'
    IN /\ (p.hasStep /\ q.hasStep) => q.current >= p.current
       /\ q.state = "SUCCESS" => q.current = q.total

C8_Step(r) ==
    LET p == workflow_task_status(r)
        q == workflow_task_status(r)'
    IN /\ (p.state = "PROGRESS" /\ q.state = "PROGRESS") => q.current >= p.current
       /\ q.state = "PROGRESS" => (q.current \in 1..q.total
                                    /\ q.total = Total(req'[r].tier))
       /\ q.state = "SUCCESS" => (q.current = q.total /\ q.current = 1)
       /\ q.state = "FAILURE" => (q.current = 0 /\ q.total = 0)

C9_Step(r) ==
    LET j == job[r]
        k == job'[r]
    IN /\ (j.phase = "fan" /\ k # j) =>
            \/ /\ k.phase = "fan" /\ k.state = "PROGRESS"
               /\ \A s \in Sections : j.sec[s] # "run" => k.sec[s] = j.sec[s]
            \/ /\ k.phase = "persist" /\ k.state = "PROGRESS"
               /\ \A s \in Sections :
                     /\ j.sec[s] # "run"
                     /\ k.sec[s] = IF j.sec[s] = "content" THEN "content"
                                   ELSE "placeholder"
            \/ k.state = "FAILURE" /\ k.error = "SoftTimeLimitExceeded"
       /\ k.phase = "fan" => \A s \in Sections : k.sec[s] # "none"
       /\ (k.state = "SUCCESS" /\ j.state # "SUCCESS") =>
            /\ k.sec = j.sec
            /\ \A s \in Sections : k.sec[s] \in {"content", "placeholder"}

\* C9 -- every step of every task keeps section failures inside their slots.
C9_PartialFailureIsolation == [][\A r \in Slots : C9_Step(r)]_vars

\* a free task succeeded with one section's text and one section's placeholder
C9_Witness ==
    \E r \in Slots, s, t \in Sections :
        /\ job[r].state = "SUCCESS" /\ req[r].tier = "free"
        /\ job[r].sec[s] = "content" /\ job[r].sec[t] = "placeholder"

\* C10 -- Shared-context failure: a task whose overall context summary failed has
\* started no section task and is in FAILURE with its credit refunded.
C10_ContextFailureFailsJob ==
    \A r \in Slots :
        job[r].ctxFailed =>
            /\ job[r].state = "FAILURE" /\ job[r].refunds = 1
            /\ \A s \in Sections : job[r].sec[s] = "none"
            /\ credits = StartCredits

\* ---------------------------------------------- claims on the index cache

C12_IndexValidity ==
    (blob.marker # NoMarker /\ blob.index # NoIndex) =>
        blob.marker = compute_file_hash([ver |-> blob.index.ver, n |-> blob.index.n])

\* C13 -- Missing or empty artifact: a call made while the blob is missing or
\* yields no chunk returns None, puts nothing in the cache, and a query through
\* RAGService then returns its error message.
C13_NoContentDegrades ==
    (call.n >= 1 /\ (call.at = NoBlob \/ call.at.n = 0)) =>
        /\ call.ret = NoIndex
        /\ ~call.cached
        /\ call.answer = "Error invoking retrieval chain."

\* C14 -- Partial index: a rebuild during which the embedding failed for some but
\* not all chunks builds the index over exactly the other chunks, uploads it and
\* caches it.
C14_PartialIndex ==
    (call.rebuild /\ call.failed # {} /\ call.failed # 1..call.at.n) =>
        /\ call.built /\ call.cached
        /\ call.ret.chunks = (1..call.at.n) \ call.failed
        /\ blob.index = call.ret

\* ------------------------------------ claims on the content-generation call

Ended == {"content", "placeholder", "raised"}

\* C15 -- Section retry contract: the API is called at most 3 times, the waits
\* between the calls are 5s then 10s, and a call that failed every time ends in a
\* placeholder, never in an exception.
C15_RetryContract ==
    /\ gen.calls <= 3
    /\ gen.slept \in {<<>>, <<5>>, <<5, 10>>}
    /\ gen.result \in Ended =>
          /\ gen.result # "raised"
          /\ Len(gen.errs) = gen.calls => gen.result = "placeholder"

\* errors that are neither a rate limit nor transient
Fatal == {"BadRequestError", "Exception"}

\* C16 -- Fatal errors are not retried: once the API call has failed with a fatal
\* error no further call is made, so the API was called exactly once.
C16_FatalNotRetried ==
    \A i \in 1..Len(gen.errs) :
        gen.errs[i] \in Fatal => (gen.calls = i /\ gen.calls = 1)

\* ------------------------------------------------- claims on the routes

\* C17 -- Validation precedes debit: a request whose body lacks a required field
\* or the idea text is rejected at admission; it never gets to the debit, never
\* has a task and never causes a refund.
C17_ValidationPrecedesDebit ==
    \A r \in Slots :
        req[r].input # "ok" =>
            /\ req[r].pc \in {"idle", "rejected"}
            /\ job[r].state = "NONE" /\ job[r].refunds = 0

\* C18 -- Bucket consistency: the debit of a free job takes 1 from the free
\* bucket and its refund gives 1 back to it; the debit and the refund of a paid or
\* an upgrade job do so on the paid bucket; the other bucket is left as it is, and
\* nothing else changes a balance.
C18_Step(r) ==
    LET b == IF req'[r].tier = "free" THEN "free" ELSE "paid"
        other == IF b = "free" THEN "paid" ELSE "free"
        debits == req[r].pc = "inc" /\ req'[r].pc = "dispatch"
        refunds == job'[r].refunds # job[r].refunds
    IN /\ debits => (credits'[b] = credits[b] - 1 /\ credits'[other] = credits[other])
       /\ refunds => /\ job'[r].refunds = job[r].refunds + 1
                     /\ credits'[b] = credits[b] + 1
                     /\ credits'[other] = credits[other]
       /\ req[r].pc # "idle" => req'[r].tier = req[r].tier

\* C18 -- every step that changes a balance is the debit or the refund of one job,
\* on that job's bucket.
C18_BucketConsistency ==
    [][/\ \A r \in Slots : C18_Step(r)
       /\ credits' # credits =>
             \E r \in Slots : \/ req[r].pc = "inc" /\ req'[r].pc = "dispatch"
                              \/ job'[r].refunds # job[r].refunds]_vars

\* an upgrade job has failed and been refunded while a free job is charged
C18_Witness ==
    \E r, q \in Slots :
        /\ req[r].tier = "upgrade" /\ job[r].state = "FAILURE" /\ job[r].refunds = 1
        /\ req[q].tier = "free" /\ job[q].state = "SUCCESS"
        /\ credits = [free |-> InitFree - 1, paid |-> InitPaid]

\* report records that exist
Records(rep) == {i \in RepIds : rep[i] # "none"}

\* C19 -- Upgrade in place: the step in which an upgrade job succeeds sets the
\* report found at admission to 'paid' and leaves the set of report records as it
\* is; the step in which a free or a paid job succeeds adds exactly one record, of
\* that access level.
C19_Step(r) ==
    LET succeeds == job[r].state # "SUCCESS" /\ job'[r].state = "SUCCESS" IN
    succeeds =>
        IF req[r].tier = "upgrade"
        THEN /\ Records(reports') = Records(reports)
             /\ req[r].target \in Records(reports)
             /\ reports' = [reports EXCEPT ![req[r].target] = "paid"]
        ELSE \E i \in RepIds \ Records(reports) :
                reports' = [reports EXCEPT ![i] = req[r].tier]

\* C19 -- every step of every job treats the report records as stated above.
C19_UpgradeInPlace ==
    [][\A r \in Slots : C19_Step(r)]_vars

\* an upgrade job has succeeded on the report a free job had created
C19_Witness ==
    \E r, q \in Slots :
        /\ req[q].tier = "free" /\ job[q].state = "SUCCESS"
        /\ req[r].tier = "upgrade" /\ job[r].state = "SUCCESS" /\ req[r].target = q
        /\ reports[q] = "paid" /\ Cardinality(Records(reports)) = 2

\* C20 -- Unknown job id: the poll of an id that was never issued differs from the
\* poll of every issued id and is an error.
C20_UnknownIdDistinct ==
    \A r, q \in Slots :
        (job[r].state = "NONE" /\ job[q].state # "NONE") =>
            /\ workflow_task_status(r) # workflow_task_status(q)
            /\ workflow_task_status(r).error # "none"

\* the report records before a job has stored anything
NoResult == [i \in RepIds |-> IF i = 0 THEN "free" ELSE "none"]

\* C21 -- Result only on success: the job of a request that ended in FAILURE has
\* left no created record and no upgraded record in the reports.
C21_ResultOnlyOnSuccess ==
    \A r \in Slots : job[r].state = "FAILURE" => reports = NoResult

\* three uppercase letters
IsCode(s) == Len(s) = 3 /\ \A i \in 1..3 : s[i] \in {"U", "E", "S", "D"}

\* the output without its leading and trailing blanks
Trimmed(s) ==
    LET n == Len(s)
        cut == CHOOSE p \in (0..n) \X (0..n) :
                  /\ p[1] + p[2] <= n
                  /\ \A i \in 1..n : (i <= p[1] \/ i > n - p[2]) => s[i] = " "
                  /\ p[1] + p[2] < n => s[p[1] + 1] # " " /\ s[n - p[2]] # " "
    IN  SubSeq(s, cut[1] + 1, n - cut[2])

\* C22 (as claimed) -- the helper of each tier returns the model's output when
\* that is three uppercase letters (blanks around it aside), and 'USD' otherwise.
C22_Claimed_CodeOrFallback ==
    cur.tier # "none" =>
        /\ ~cur.raised
        /\ cur.value = IF cur.kind = "str" /\ IsCode(Trimmed(cur.content))
                       THEN Trimmed(cur.content)
                       ELSE USD

\* C22 -- Currency validation with silent fallback: the helper never raises and
\* always returns three uppercase letters; the free helper returns the trimmed
\* output when that is three uppercase letters, the paid helper returns the
\* upper-cased trimmed output when that is three uppercase letters; in every
\* other case, a failed call and a missing content included, both return 'USD'.
C22_ValidatedOrFallback ==
    cur.tier # "none" =>
        LET code == IF cur.tier = "free" THEN Trimmed(cur.content)
                    ELSE upper(Trimmed(cur.content)) IN
        /\ ~cur.raised
        /\ IsCode(cur.value)
        /\ cur.value = IF cur.kind = "str" /\ IsCode(code) THEN code ELSE USD

\* the paid helper has returned a code that the model gave in lower case
C22_Witness ==
    /\ cur.tier = "paid" /\ cur.kind = "str"
    /\ \E i \in 1..Len(cur.content) : cur.content[i] = "e"
    /\ cur.value # USD

\* C23 -- Shared context happens-before and is passed unchanged: the step that
\* submits the section tasks of a job starts from a state in which the currency
\* and the summary have been computed, once; while the job runs they are not
\* computed again and do not change; every submitted section task holds exactly
\* the job's currency and the job's summary as its arguments.
C23_Step(r) ==
    LET j == job[r]
        k == job'[r]
    IN /\ (\E s \in Sections : j.sec[s] = "none" /\ k.sec[s] # "none") =>
            /\ j.ctxRuns = 1
            /\ j.currency \in Currencies /\ j.summary \in Summaries
       /\ (j.ctxRuns = 1 /\ k.state = "PROGRESS") =>
            /\ k.ctxRuns = 1
            /\ k.currency = j.currency /\ k.summary = j.summary
       /\ (k.state = "PROGRESS" /\ \E s \in Sections : k.sec[s] # "none") =>
            \A s \in Sections :
                k.args[s] = [currency |-> k.currency, summary |-> k.summary]

\* C23 -- every step of every job keeps the order and the values stated above.
C23_SharedContextFirst == [][\A r \in Slots : C23_Step(r)]_vars

\* a free job's sections run with a currency other than the fallback, one done
C23_Witness ==
    \E r \in Slots, s, t \in Sections :
        /\ req[r].tier = "free" /\ job[r].state = "PROGRESS" /\ job[r].phase = "fan"
        /\ job[r].currency = "EUR" /\ job[r].summary = "summary"
        /\ job[r].sec[s] = "content" /\ job[r].sec[t] = "run"

\* C24 -- Concurrent rebuilds do not diverge: once both rebuilds have finished,
\* the persisted index, the persisted marker and the cache entry all come from
\* the build that finished second.
C24_RebuildsDoNotDiverge ==
    Len(race.finished) = 2 =>
        /\ race.index.by = race.finished[2]
        /\ race.marker.by = race.finished[2]
        /\ race.cache.by = race.finished[2]

\* C25 -- Hot path: a call of initialize_retriever made while the process's cache
\* holds an entry for the key returns that entry, computes no fingerprint, reads
\* and writes nothing in the object store and leaves the store and the cache as
\* they are, whatever the artifact's bytes are at the time of the call.
C25_Step ==
    (FAISS_INDEX_CACHE # NoIndex /\ call'.n = call.n + 1) =>
        /\ call'.hit /\ ~call'.rebuild
        /\ call'.ret = FAISS_INDEX_CACHE
        /\ ~call'.io.hashed /\ ~call'.io.read /\ ~call'.io.wrote
        /\ blob' = blob /\ FAISS_INDEX_CACHE' = FAISS_INDEX_CACHE

\* C25 -- every call made with a cache entry takes the hot path.
C25_HotPath == [][C25_Step]_vars

\* a call returned the cached index although the artifact had been replaced by
\* other bytes since the index was built
C25_Witness ==
    /\ call.hit /\ call.ret # NoIndex
    /\ call.at # NoBlob
    /\ compute_file_hash(call.at)
          # compute_file_hash([ver |-> call.ret.ver, n |-> call.ret.n])
    /\ blob.marker # compute_file_hash(call.at)

\* C26 -- Index build failure is never a job failure: the step of a paid or an
\* upgrade job in which the retrieval index fails to build or load leaves the job
\* running, on its way to the fan-out; the job does not fail in that step.
C26_Step(r) ==
    (~job[r].indexFailed /\ job'[r].indexFailed) =>
        /\ job'[r].state = "PROGRESS" /\ job'[r].phase = "submit"
        /\ job'[r].refunds = job[r].refunds
        /\ credits' = credits

\* C26 -- no step of any job turns an index failure into a job failure.
C26_IndexFailureNotJobFailure == [][\A r \in Slots : C26_Step(r)]_vars

\* a paid job whose index could not be built has succeeded
C26_Witness ==
    \E r \in Slots :
        /\ req[r].tier = "paid" /\ job[r].indexFailed
        /\ job[r].state = "SUCCESS"

\* C27 -- Debit before work: a request reaches the dispatch of its task only by
\* the step that takes one credit from the bucket of its type, a task is queued
\* only by a request standing at the dispatch, and a task is started only once
\* queued; so no task is queued or running without its debit applied.
C27_Step(r) ==
    /\ (req[r].pc # "dispatch" /\ req'[r].pc = "dispatch") =>
          /\ req[r].pc = "inc"
          /\ credits' = [credits EXCEPT ![DebitBucket(req[r].tier)] = @ - 1]
    /\ (job[r].state = "NONE" /\ job'[r].state # "NONE") =>
          /\ req[r].pc = "dispatch" /\ job'[r].state = "PENDING"
          /\ credits' = credits
    /\ job'[r].state \in {"PENDING", "PROGRESS"} => req'[r].pc = "admitted"

\* C27 -- every step of every request and job keeps the debit before the work.
C27_DebitBeforeWork == [][\A r \in Slots : C27_Step(r)]_vars

\* a paid job is queued and the paid bucket is one below its start
C27_Witness ==
    \E r \in Slots :
        /\ req[r].tier = "paid" /\ job[r].state = "PENDING"
        /\ credits["paid"] = InitPaid - 1 /\ credits["free"] = InitFree

\* a call is made with no cache entry while the marker is the artifact's hash and
\* an index blob exists
PersistedLoadCase ==
    /\ call'.n = call.n + 1
    /\ FAISS_INDEX_CACHE = NoIndex
    /\ blob.marker # NoMarker /\ compute_file_hash(blob.artifact) = blob.marker
    /\ blob.index # NoIndex

\* the call loaded the index blob: it is returned and cached, nothing is rebuilt
\* and nothing is written
LoadedPersisted ==
    /\ ~call'.rebuild /\ call'.cached
    /\ call'.ret = blob.index /\ FAISS_INDEX_CACHE' = blob.index
    /\ ~call'.io.wrote /\ blob' = blob

C28_Step ==
    PersistedLoadCase =>
        /\ blob'.marker = blob.marker
        /\ IF ~call'.io.loadRaised
           THEN LoadedPersisted
           ELSE /\ call'.rebuild
                /\ IF call'.ret # NoIndex
                   THEN /\ FAISS_INDEX_CACHE' = call'.ret /\ blob'.index = call'.ret
                        /\ call'.ret.ver = blob.artifact.ver /\ call'.io.wrote
                   ELSE FAISS_INDEX_CACHE' = NoIndex /\ blob' = blob

C29_OriginalCauseReported ==
    \A r \in Slots :
        job[r].state = "FAILURE" =>
            /\ workflow_task_status(r).error # "none"
            /\ workflow_task_status(r).error = job[r].cause

\* C30 -- No orphan debit: a request that has debited leaves the dispatch either
\* with its task handed to the worker, the balance as debited, or with the
\* debited credit back in its bucket.
C30_Step(r) ==
    (req[r].pc = "dispatch" /\ req'[r].pc # "dispatch") =>
        \/ /\ req'[r].pc = "admitted" /\ job'[r].state = "PENDING"
           /\ credits' = credits
        \/ /\ job'[r].state = "NONE"
           /\ credits' = [credits EXCEPT ![DebitBucket(req[r].tier)] = @ + 1]

\* C30 -- every step of every request leaves no debit without task or refund.
C30_NoOrphanDebit == [][\A r \in Slots : C30_Step(r)]_vars

\* upgrade requests for report i whose task was handed to the worker and has not
\* failed: they hold, or have spent, one paid credit each
UpgradesOf(i) ==
    {r \in Slots : /\ req[r].tier = "upgrade" /\ req[r].target = i
                   /\ job[r].state \in {"PENDING", "PROGRESS", "SUCCESS"}}

\* C31 -- Single upgrade per report: at most one upgrade job is admitted for a
\* report, and at most one paid credit is charged, net of refunds, for it.
C31_SingleUpgrade ==
    \A i \in RepIds : Cardinality(UpgradesOf(i)) <= 1

\* C32 -- Upgrade precondition: an upgrade request goes on to the credit check
\* and the debit only for a report that is 'free'; made while no report is free,
\* it is answered at once with 409 (or 404 / 500 for a missing idea or report),
\* never with the credit check's 403, and the step changes no balance, no report
\* and no task; a rejected request does nothing afterwards.
C32_Step(r) ==
    LET made == req[r].pc = "idle" /\ req'[r].pc # "idle" /\ req'[r].tier = "upgrade"
    IN /\ (made /\ req'[r].pc # "rejected") => reports[req'[r].target] = "free"
       /\ (made /\ \A i \in RepIds : reports[i] # "free") =>
             /\ req'[r].pc = "rejected" /\ req'[r].resp \in {404, 409, 500}
       /\ (made /\ req'[r].resp = 409) =>
             /\ req'[r].pc = "rejected"
             /\ credits' = credits /\ reports' = reports /\ job' = job
       /\ (req[r].pc = "rejected" /\ req[r].resp = 409) =>
             /\ req'[r] = req[r] /\ job'[r].state = "NONE"

\* C32 -- every step of every request keeps the upgrade precondition.
C32_UpgradePrecondition == [][\A r \in Slots : C32_Step(r)]_vars

\* an upgrade of the report that an earlier upgrade had made 'paid' was answered
\* 409 although the paid bucket was empty; balance and report are as they were
C32_Witness ==
    \E r, q \in Slots :
        /\ req[q].tier = "upgrade" /\ job[q].state = "SUCCESS" /\ req[q].target = 0
        /\ req[r].tier = "upgrade" /\ req[r].pc = "rejected" /\ req[r].resp = 409
        /\ job[r].state = "NONE"
        /\ reports[0] = "paid" /\ credits["paid"] = 0

\* C33 -- Fresh grounding per job: the index that a call of initialize_retriever
\* returns to a job is built from the artifact as the job uploaded it just
\* before the call.
C33_FreshGrounding ==
    (call.n >= 1 /\ call.ret # NoIndex) =>
        /\ call.ret.ver = call.at.ver
        /\ call.ret.n = call.at.n

\* C34 -- Job termination: every job that is queued or running eventually is in
\* SUCCESS or in FAILURE.
C34_JobTermination ==
    \A r \in Slots :
        (job[r].state \in {"PENDING", "PROGRESS"}) ~> (job[r].state \in Terminal)

\* C35: whatever verify-payment, webhook, mark-failed and mark-cancelled calls are
\* made for an order, and however they interleave, the order's credits are added
\* to the user's paid balance at most once.
C35_CreditedAtMostOnce ==
    \A o \in Orders : pay.credited[o] <= 1

\* orders placed with coupon c whose credits were added
PaidWith(c) ==
    {o \in Orders : pay.payments[o].coupon_code = c /\ pay.credited[o] >= 1}

\* C36: whatever create-order and payment-verification calls are made, and however
\* they interleave, the user benefits from a coupon at most once: at most one
\* discounted order that gets paid or one zero-price grant of free credits.
C36_CouponOncePerUser ==
    \A c \in Coupons : Cardinality(PaidWith(c)) + pay.grants[c] <= 1

\* the names initialize_retriever computes for a user and a file path: the index
\* blob name, which is the key of FAISS_INDEX_CACHE too, and the marker name
NamesOf(user_id, file_path) ==
    {blob_index_name(user_id, file_path), blob_hash_name(user_id, file_path)}

\* the names of two distinct users never meet, whatever the file paths are
NamesDisjoint ==
    \A u1 \in UserIds, u2 \in UserIds :
        u1 # u2 =>
            \A p1 \in Paths, p2 \in Paths : NamesOf(u1, p1) \cap NamesOf(u2, p2) = {}

\* C37: for two distinct user ids and any file paths, the cache key and the index
\* and marker names computed for one user differ from those computed for the
\* other, and initialize_retriever returns to a user only an index that was
\* cached or persisted by a call for that user.
C37_CrossUserIsolation ==
    /\ NamesDisjoint
    /\ keys.ret.n >= 1 => keys.ret.owner = keys.ret.user

\* a user asks for a file path while the cache holds the index another user's
\* call for the same path stored, and is not answered with that index
C37_Witness ==
    /\ keys.ret.from = "rebuilt"
    /\ keys.ret.owner = keys.ret.user
    /\ \E e \in keys.FAISS_INDEX_CACHE :
           /\ e.owner # keys.ret.user
           /\ e.name = blob_index_name(e.owner, keys.ret.path)

====
